---- MODULE Spec2Model ----
(***************************************************************************)
(* Model of the `send-event` command (src/src/commands/send_event.rs):     *)
(* the argument definition of make_app, and execute, which either replays  *)
(* pre-formed JSON event files or assembles one event from the arguments   *)
(* and hands it to the dispatcher.                                         *)
(*                                                                         *)
(* Representation.                                                         *)
(*   - An Option is a sequence of length 0 (None) or 1 (Some(x)).          *)
(*   - A text that the code parses (key:value arguments, log lines) is a   *)
(*     sequence of chunks; the chunk ":" is the colon character and the    *)
(*     chunk " " a blank, every other chunk is colon-free text.            *)
(*   - A text the code only copies is a TLA+ string.                       *)
(*   - A map is a function whose DOMAIN is its key set.                    *)
(***************************************************************************)
EXTENDS Integers, Sequences, FiniteSets, TLC

VARIABLES
    args,             \* the command line (ArgMatches), fixed for a run
    sys,              \* what the collaborators and the file system answer
    pc,               \* position of the run inside main/execute
    event,            \* Option: the manually assembled Event under construction
    collected_paths,  \* Option: the Vec<PathBuf> of line 168, None before it
    next_file,        \* index into collected_paths of the file handled next
    dispatched,       \* events handed to send_raw_event, in call order
    printed,          \* lines written by println!, in order
    warned,           \* whether the warn! of line 174 was emitted
    result,           \* "running", "Ok", "Err", "Panic" or "UsageError"
    error             \* the message of the error, "" while there is none

vars == <<args, sys, pc, event, collected_paths, next_file, dispatched,
          printed, warned, result, error>>

-----------------------------------------------------------------------------
(* Bounds of the model.                                                    *)

MaxFiles == 3     \* entries produced by the glob iterator
MaxArgs == 2      \* occurrences of one repeatable argument
ExtraLines == 2   \* log lines beyond the breadcrumb cap

(* Program constant: "last 100 records" of the --logfile help.             *)
MaxBreadcrumbs == 100

-----------------------------------------------------------------------------
(* Generic helpers.                                                        *)

None == <<>>
Some(x) == <<x>>

SeqUpTo(S, n) == UNION {[1..k -> S] : k \in 0..n}

EmptyMap == <<>>

\* BTreeMap::insert / Map::insert: the last write for a key wins.
Insert(m, k, v) == [x \in (DOMAIN m) \cup {k} |-> IF x = k THEN v ELSE m[x]]

-----------------------------------------------------------------------------
(* Levels: sentry::protocol::Level and its FromStr, as used on line 194.   *)

Levels == {"debug", "info", "warning", "error", "fatal"}

\* l.parse().ok(): case-sensitive match against the five names.
ParseLevel(l) == IF l \in Levels THEN Some(l) ELSE None

-----------------------------------------------------------------------------
(* str::splitn(2, ':') as used on lines 225, 239 and 248.                  *)

RECURSIVE FindColon(_, _)
FindColon(s, i) ==
    IF i > Len(s) THEN 0
    ELSE IF s[i] = ":" THEN i
    ELSE FindColon(s, i + 1)

RECURSIVE FindLastColon(_, _)
FindLastColon(s, i) ==
    IF i < 1 THEN 0
    ELSE IF s[i] = ":" THEN i
    ELSE FindLastColon(s, i - 1)

\* A wrong split (rsplitn): at the last colon instead of the first.
Splitn2AtLast(s) ==
    LET i == FindLastColon(s, Len(s))
    IN  IF i = 0 THEN <<s>>
        ELSE <<SubSeq(s, 1, i - 1), SubSeq(s, i + 1, Len(s))>>

\* The pieces splitn(2, ':') yields: one piece without a colon, else two.
Splitn2(s) ==
    LET i == FindColon(s, 1)
    IN  IF i = 0 THEN <<s>>
        ELSE <<SubSeq(s, 1, i - 1), SubSeq(s, i + 1, Len(s))>>

-----------------------------------------------------------------------------
(* Results of fallible steps.                                              *)

Ok(v) == [ok |-> TRUE, val |-> v, err |-> ""]
Err(e) == [ok |-> FALSE, val |-> None, err |-> e]

-----------------------------------------------------------------------------
(* The Event record (sentry::protocol::Event) and its parts.               *)

SdkInfo == [name |-> "sentry-cli", version |-> "1.x"]

\* Event::default(): the fields `..Event::default()` fills on line 217.
DefaultEvent ==
    [sdk |-> None, level |-> "error", release |-> None, dist |-> None,
     platform |-> "other", environment |-> None, logentry |-> None,
     timestamp |-> "now", tags |-> EmptyMap, extra |-> EmptyMap,
     user |-> None, fingerprint |-> <<"{{ default }}">>,
     breadcrumbs |-> <<>>]

\* IpAddress::default(), the value of Default::default() on lines 263, 268.
DefaultIp == [kind |-> "default", addr |-> <<>>]

\* User::default()
DefaultUser ==
    [id |-> None, email |-> None, ip_address |-> None, username |-> None,
     other |-> EmptyMap]

\* Texts that parse as an IP address; "::" is the IPv6 unspecified address.
ValidIpTexts == {<<"10.0.0.1">>, <<":", ":">>}

\* value.parse() of line 255 (IpAddress::from_str).
ParseIp(v) ==
    IF v \in ValidIpTexts THEN Ok([kind |-> "exact", addr |-> v])
    ELSE Err("invalid IP address syntax")

-----------------------------------------------------------------------------
(* Collaborators outside this file.                                        *)

\* get_timestamp: unix seconds, RFC 2822 or RFC 3339; anything else fails.
GetTimestamp(t) ==
    CASE t = "1700000000" -> Ok("2023-11-14T22:13:20Z")
      [] t = "Tue, 14 Nov 2023 22:13:20 +0000" -> Ok("2023-11-14T22:13:20Z")
      [] t = "2023-11-14T22:13:20Z" -> Ok("2023-11-14T22:13:20Z")
      [] OTHER -> Err("not in valid format")

\* validate_timestamp, the clap validator of line 48: accepts what
\* get_timestamp parses.
ValidateTimestamp(t) == GetTimestamp(t).ok

\* glob::Pattern::new inside glob_with: an unclosed "[" is a PatternError.
ValidPattern(p) == p # "events/[.json"

\* Case folding of a category token of a log line.
Lower(c) ==
    CASE c = "ERROR" -> "error"
      [] c = "Info" -> "info"
      [] c = "WARNING" -> "warning"
      [] OTHER -> c

\* First index i with line[i] = ":" and line[i+1] = " ", or 0.
RECURSIVE FindColonSpace(_, _)
FindColonSpace(line, i) ==
    IF i + 1 > Len(line) THEN 0
    ELSE IF line[i] = ":" /\ line[i + 1] = " " THEN i
    ELSE FindColonSpace(line, i + 1)

\* One log line to one breadcrumb.
MakeBreadcrumb(line, withCategories) ==
    LET i == FindColonSpace(line, 1)
        plain == [level |-> None, message |-> line]
    IN  IF ~withCategories \/ i # 2 THEN plain
        ELSE IF Lower(line[1]) \in Levels
             THEN [level |-> Some(Lower(line[1])),
                   message |-> SubSeq(line, i + 2, Len(line))]
             ELSE plain

\* attach_logfile: every line becomes a breadcrumb, then all but the last
\* MaxBreadcrumbs are dropped; an unreadable file is an error.
AttachLogfile(ev, content, withCategories) ==
    IF content = None THEN Err("Could not open logfile")
    ELSE LET lines == content[1]
             all == [k \in 1..Len(lines) |->
                        MakeBreadcrumb(lines[k], withCategories)]
             skip == IF Len(all) > MaxBreadcrumbs
                     THEN Len(all) - MaxBreadcrumbs ELSE 0
         IN  Ok([ev EXCEPT !.breadcrumbs = SubSeq(all, skip + 1, Len(all))])

\* serde_json::from_reader::<Event>: what each kind of file decodes to.
\* "full" carries every field; "bare" is the document {} , whose optional
\* fields, sdk among them, stay unset.
FullFileEvent ==
    [DefaultEvent EXCEPT !.sdk = Some([name |-> "sentry.python",
                                        version |-> "0.1"]),
                         !.level = "warning", !.platform = "python",
                         !.tags = Insert(EmptyMap, <<"a">>, <<"1">>)]

Decode(kind) ==
    CASE kind = "full" -> Ok(FullFileEvent)
      [] kind = "bare" -> Ok(DefaultEvent)
      [] OTHER -> Err("invalid JSON event")

\* File::open on a matched path.
Opens(kind) == kind # "unopenable"

-----------------------------------------------------------------------------
(* Field derivation of execute, lines 190-282.                             *)

\* Option::or_else
OrElse(a, b) == IF a # None THEN a ELSE b

\* Option::unwrap_or
UnwrapOr(a, d) == IF a # None THEN a[1] ELSE d

\* Itertools::join("\n") of the message fragments.
RECURSIVE Join(_)
Join(lines) ==
    IF Len(lines) = 0 THEN <<>>
    ELSE IF Len(lines) = 1 THEN <<lines[1]>>
    ELSE <<lines[1], "\n">> \o Join(Tail(lines))

\* A wrong construction: level and sdk left at Event::default().
BuildEventDefaults(a, s) ==
    [DefaultEvent EXCEPT
        !.release = OrElse(a.release, s.detect),
        !.dist = a.dist,
        !.platform = UnwrapOr(a.platform, "other"),
        !.environment = a.environment,
        !.logentry = IF Len(a.message) = 0 THEN None
                     ELSE Some([message |-> Join(a.message),
                                params |-> a.message_args])]

\* Lines 190-218: the Event literal.
BuildEvent(a, s) ==
    [DefaultEvent EXCEPT
        !.sdk = Some(SdkInfo),
        !.level = UnwrapOr(IF a.level = None THEN None
                           ELSE ParseLevel(a.level[1]), "error"),
        !.release = OrElse(a.release, s.detect),
        !.dist = a.dist,
        !.platform = UnwrapOr(a.platform, "other"),
        !.environment = a.environment,
        !.logentry = IF Len(a.message) = 0 THEN None
                     ELSE Some([message |-> Join(a.message),
                                params |-> a.message_args])]

\* Lines 224-229: the tags loop, from argument i on.
RECURSIVE TagsLoop(_, _, _)
TagsLoop(list, i, tags) ==
    IF i > Len(list) THEN Ok(tags)
    ELSE LET split == Splitn2(list[i])
         IN  IF Len(split) < 2 THEN Err("missing tag value")
             ELSE TagsLoop(list, i + 1, Insert(tags, split[1], split[2]))

\* Lines 238-243: the extra loop, from argument i on.
RECURSIVE ExtraLoop(_, _, _)
ExtraLoop(list, i, extra) ==
    IF i > Len(list) THEN Ok(extra)
    ELSE LET split == Splitn2(list[i])
         IN  IF Len(split) < 2 THEN Err("missing extra value")
             ELSE ExtraLoop(list, i + 1,
                            Insert(extra, split[1],
                                   [kind |-> "string", val |-> split[2]]))

\* The value of line 234: the process environment as an object of strings.
EnvironValue(s) == [kind |-> "object", val |-> s.procEnv]

\* A wrong order: the environment injected after the user's entries.
DeriveExtraEnvironLast(a, s, extra) ==
    LET r == ExtraLoop(a.extra, 1, extra)
    IN  IF ~r.ok \/ a.no_environ THEN r
        ELSE Ok(Insert(r.val, <<"environ">>, EnvironValue(s)))

\* Lines 231-243: environ injection, then the extra loop.
DeriveExtra(a, s, extra) ==
    LET withEnv == IF ~a.no_environ
                   THEN Insert(extra, <<"environ">>, EnvironValue(s))
                   ELSE extra
    IN  ExtraLoop(a.extra, 1, withEnv)

\* Lines 247-261: the user loop, from argument i on.
RECURSIVE UserLoop(_, _, _)
UserLoop(list, i, user) ==
    IF i > Len(list) THEN Ok(user)
    ELSE LET split == Splitn2(list[i])
         IN  IF Len(split) < 2 THEN Err("missing user value")
             ELSE LET key == split[1]
                      value == split[2]
                  IN  CASE key = <<"id">> ->
                             UserLoop(list, i + 1,
                                      [user EXCEPT !.id = Some(value)])
                        [] key = <<"email">> ->
                             UserLoop(list, i + 1,
                                      [user EXCEPT !.email = Some(value)])
                        [] key = <<"ip_address">> ->
                             LET ip == ParseIp(value)
                             IN  IF ~ip.ok THEN Err(ip.err)
                                 ELSE UserLoop(list, i + 1,
                                        [user EXCEPT
                                           !.ip_address = Some(ip.val)])
                        [] key = <<"username">> ->
                             UserLoop(list, i + 1,
                                      [user EXCEPT !.username = Some(value)])
                        [] OTHER ->
                             UserLoop(list, i + 1,
                                      [user EXCEPT
                                         !.other = Insert(@, key, value)])

\* Option::get_or_insert
GetOrInsert(o, d) == IF o = None THEN Some(d) ELSE o

\* A wrong derivation: the ip_address of an explicit user is not defaulted.
DeriveUserNoIpDefault(a, s) ==
    IF Len(a.user_data) > 0
    THEN LET r == UserLoop(a.user_data, 1, DefaultUser)
         IN  IF ~r.ok THEN r ELSE Ok(Some(r.val))
    ELSE Ok(IF s.osUser = None THEN None
            ELSE Some([DefaultUser EXCEPT !.username = s.osUser,
                                          !.ip_address = Some(DefaultIp)]))

\* Lines 245-271: the value assigned to event.user (an Option<User>).
DeriveUser(a, s) ==
    IF Len(a.user_data) > 0
    THEN LET r == UserLoop(a.user_data, 1, DefaultUser)
         IN  IF ~r.ok THEN r
             ELSE Ok(Some([r.val EXCEPT
                             !.ip_address = GetOrInsert(@, DefaultIp)]))
    ELSE Ok(IF s.osUser = None THEN None
            ELSE Some([DefaultUser EXCEPT !.username = s.osUser,
                                          !.ip_address = Some(DefaultIp)]))

\* Lines 273-278: an explicit fingerprint replaces the default one.
DeriveFingerprint(a, fp) == IF Len(a.fingerprint) > 0 THEN a.fingerprint ELSE fp

-----------------------------------------------------------------------------
(* The runs considered: command lines and answers of the surroundings.     *)

DefaultArgs ==
    [path |-> None, level |-> None, platform |-> None, release |-> None,
     dist |-> None, environment |-> None, message |-> <<>>,
     message_args |-> <<>>, timestamp |-> None, tags |-> <<>>,
     extra |-> <<>>, no_environ |-> FALSE, user_data |-> <<>>,
     fingerprint |-> <<>>, logfile |-> None, with_categories |-> FALSE]

ProcEnvs == {("HOME" :> "/root"), ("HOME" :> "/root") @@ ("LANG" :> "C")}

LinePool ==
    << <<"ERROR", ":", " ", "disk full">>,
       <<"random text">>,
       <<"Info", ":", " ", "a", ":", " ", "b">>,
       <<"foo", ":", " ", "bar">>,
       <<"WARNING", ":", "x">> >>

\* A log file of n lines; line k ends in its own number, so no two lines
\* of a file are equal.
LogLines(n, off) ==
    [k \in 1..n |-> LinePool[((k + off) % Len(LinePool)) + 1] \o <<ToString(k)>>]

DefaultSys ==
    [dsn |-> "ok", entries |-> <<>>, detect |-> None,
     osUser |-> Some(<<"alice">>), procEnv |-> ("HOME" :> "/root"),
     logContent |-> Some(LogLines(2, 0))]

Dsns == {"ok", "missing", "malformed"}
Patterns == {"events/*.json", "events/[.json"}
\* What the glob iterator yields for one entry: an Err(GlobError), or the
\* path of a file that cannot be opened, is not an event, or is an event.
EntryKinds == {"globerr", "unopenable", "malformed", "full", "bare"}
LevelPool == Levels \cup {"ERROR", "bogus"}
TimestampPool == {"1700000000", "2023-11-14T22:13:20Z",
                  "Tue, 14 Nov 2023 22:13:20 +0000", "notadate"}
TagPool == {<<"a", ":", "1">>, <<"a", ":", "2">>,
            <<"b", ":", "x", ":", "y">>, <<"novalue">>}
ExtraPool == {<<"environ", ":", "x">>, <<"environ", ":", "y", ":", "z">>,
              <<"k", ":", "v">>, <<"novalue">>}
UserPool == {<<"id", ":", "user", ":", "42">>,
             <<"ip_address", ":", "10.0.0.1">>,
             <<"ip_address", ":", ":", ":">>,
             <<"ip_address", ":", "bad">>,
             <<"username", ":", "bob">>,
             <<"email", ":", "b@x">>,
             <<"team", ":", "core">>,
             <<"novalue">>}

\* Command lines whose other arguments are well-formed, absent or malformed.
RichArgs ==
    [DefaultArgs EXCEPT
        !.level = Some("fatal"), !.release = Some("1.0"),
        !.timestamp = Some("1700000000"),
        !.tags = << <<"a", ":", "1">> >>,
        !.extra = << <<"k", ":", "v">> >>,
        !.user_data = << <<"id", ":", "user", ":", "42">> >>,
        !.fingerprint = <<"f1">>, !.logfile = Some("app.log")]
MalformedArgs ==
    [DefaultArgs EXCEPT
        !.level = Some("bogus"),
        !.tags = << <<"novalue">> >>,
        !.extra = << <<"novalue">> >>,
        !.user_data = << <<"ip_address", ":", "bad">> >>,
        !.logfile = Some("app.log")]
BadTimestampArgs == [DefaultArgs EXCEPT !.timestamp = Some("notadate")]
Profiles == {DefaultArgs, RichArgs, MalformedArgs, BadTimestampArgs}

World(a, s) == [args |-> a, sys |-> s]

\* File replay: every listing of at most MaxFiles entries.
PathWorlds ==
    {World([p EXCEPT !.path = Some(pat)],
           [DefaultSys EXCEPT !.dsn = d, !.entries = e])
       : p \in Profiles, pat \in Patterns, d \in Dsns,
         e \in SeqUpTo(EntryKinds, MaxFiles)}

\* Manual assembly: the plain fields.
FieldWorlds ==
    {World([DefaultArgs EXCEPT
              !.level = l, !.platform = pf, !.release = r, !.timestamp = t,
              !.message = m, !.message_args = IF m = <<>> THEN <<>> ELSE <<"x">>,
              !.fingerprint = IF m = <<>> THEN <<>> ELSE <<"f1", "f2">>],
           [DefaultSys EXCEPT !.detect = dt])
       : l \in {None} \cup {Some(x) : x \in LevelPool},
         pf \in {None, Some("python")},
         r \in {None, Some("1.0")},
         t \in {None} \cup {Some(x) : x \in TimestampPool},
         m \in {<<>>, <<"m1">>, <<"m1", "m2">>},
         dt \in {None, Some("auto@1")}}

TagWorlds ==
    {World([DefaultArgs EXCEPT !.tags = t], DefaultSys)
       : t \in SeqUpTo(TagPool, MaxArgs)}

ExtraWorlds ==
    {World([DefaultArgs EXCEPT !.extra = x, !.no_environ = ne],
           [DefaultSys EXCEPT !.procEnv = pe])
       : x \in SeqUpTo(ExtraPool, MaxArgs), ne \in BOOLEAN, pe \in ProcEnvs}

UserWorlds ==
    {World([DefaultArgs EXCEPT !.user_data = u],
           [DefaultSys EXCEPT !.osUser = os])
       : u \in SeqUpTo(UserPool, MaxArgs), os \in {None, Some(<<"alice">>)}}

LogWorlds ==
    {World([DefaultArgs EXCEPT !.logfile = Some("app.log"),
                               !.with_categories = wc],
           [DefaultSys EXCEPT !.logContent = c])
       : wc \in BOOLEAN,
         c \in {None} \cup
               {Some(LogLines(n, off)) : n \in 0..(MaxBreadcrumbs + ExtraLines),
                                         off \in 0..(Len(LinePool) - 1)}}

\* Manual assembly: at most one occurrence of each repeatable argument,
\* every combination of failures.
CrossWorlds ==
    {World([DefaultArgs EXCEPT
              !.timestamp = t, !.tags = tg, !.extra = x, !.user_data = u,
              !.logfile = lf[1]],
           [DefaultSys EXCEPT !.dsn = d, !.logContent = lf[2]])
       : t \in {None, Some("1700000000"), Some("notadate")},
         tg \in {<<>>, << <<"a", ":", "1">> >>, << <<"novalue">> >>},
         x \in {<<>>, << <<"environ", ":", "x">> >>, << <<"novalue">> >>},
         u \in {<<>>, << <<"id", ":", "7">> >>,
                << <<"ip_address", ":", "10.0.0.1">> >>,
                << <<"ip_address", ":", "bad">> >>, << <<"novalue">> >>},
         d \in {"ok", "missing"},
         lf \in {<<None, None>>, <<Some("app.log"), None>>,
                 <<Some("app.log"), Some(LogLines(2, 0))>>}}

Worlds ==
    PathWorlds \cup FieldWorlds \cup TagWorlds \cup ExtraWorlds
      \cup UserWorlds \cup LogWorlds \cup CrossWorlds

Init ==
    /\ \E w \in Worlds : args = w.args /\ sys = w.sys
    /\ pc = "parse"
    /\ event = None
    /\ collected_paths = None
    /\ next_file = 1
    /\ dispatched = <<>>
    /\ printed = <<>>
    /\ warned = FALSE
    /\ result = "running"
    /\ error = ""

-----------------------------------------------------------------------------
(* The steps of a run.                                                     *)

\* Return from execute with Err(e), Ok(()), a panic, or a clap usage error.
Finish(r, msg) == pc' = "done" /\ result' = r /\ error' = msg

\* The run goes on: nothing is returned yet.
Running == UNCHANGED <<result, error>>

\* clap, before execute is called: the timestamp validator of line 48.
ClapParse ==
    /\ pc = "parse"
    /\ IF args.timestamp # None /\ ~ValidateTimestamp(args.timestamp[1])
       THEN Finish("UsageError", "invalid value for --timestamp")
       ELSE pc' = "dsn" /\ Running
    /\ UNCHANGED <<args, sys, event, collected_paths, next_file, dispatched,
                   printed, warned>>

\* Lines 164-167: the credential, then the choice of the mode.
GetDsn ==
    /\ pc = "dsn"
    /\ IF sys.dsn # "ok"
       THEN Finish("Err", "no valid DSN")
       ELSE /\ pc' = IF args.path # None THEN "glob" ELSE "build"
            /\ Running
    /\ UNCHANGED <<args, sys, event, collected_paths, next_file, dispatched,
                   printed, warned>>

\* Iterator::flatten over the glob results: an Err entry yields nothing,
\* an Ok entry its path (the position of the entry in the listing).
RECURSIVE Flatten(_, _)
Flatten(entries, i) ==
    IF i > Len(entries) THEN <<>>
    ELSE IF entries[i] = "globerr" THEN Flatten(entries, i + 1)
    ELSE <<i>> \o Flatten(entries, i + 1)

\* A wrong treatment of no match: an error instead of a warning.
GlobExpandNoMatchFails ==
    /\ pc = "glob"
    /\ IF ~ValidPattern(args.path[1])
       THEN Finish("Panic", "PatternError") /\ UNCHANGED <<collected_paths, warned>>
       ELSE LET paths == Flatten(sys.entries, 1)
            IN  /\ collected_paths' = Some(paths)
                /\ IF paths = <<>>
                   THEN Finish("Err", "no files matched") /\ UNCHANGED warned
                   ELSE pc' = "replay" /\ UNCHANGED warned /\ Running
    /\ UNCHANGED <<args, sys, event, next_file, dispatched, printed>>

\* Lines 168-176: glob_with(..).unwrap().flatten().collect(), and the
\* early return when nothing matched.
GlobExpand ==
    /\ pc = "glob"
    /\ IF ~ValidPattern(args.path[1])
       THEN Finish("Panic", "PatternError") /\ UNCHANGED <<collected_paths, warned>>
       ELSE LET paths == Flatten(sys.entries, 1)
            IN  /\ collected_paths' = Some(paths)
                /\ IF paths = <<>>
                   THEN warned' = TRUE /\ Finish("Ok", "")
                   ELSE pc' = "replay" /\ UNCHANGED warned /\ Running
    /\ UNCHANGED <<args, sys, event, next_file, dispatched, printed>>

\* send_raw_event followed by println!: the event is handed over and the
\* identifier printed with the file, if any.
Dispatch(ev, file) ==
    /\ dispatched' = Append(dispatched, ev)
    /\ printed' = Append(printed, [file |-> file, id |-> Len(dispatched) + 1])

\* A wrong loop: a file that fails is skipped and the loop goes on.
ReplayFileSkipsFailures ==
    /\ pc = "replay"
    /\ LET p == collected_paths[1][next_file]
           kind == sys.entries[p]
           last == next_file = Len(collected_paths[1])
       IN  /\ IF Opens(kind) /\ Decode(kind).ok
              THEN Dispatch(Decode(kind).val, Some(p))
              ELSE UNCHANGED <<dispatched, printed>>
           /\ IF last THEN Finish("Ok", "") /\ UNCHANGED next_file
              ELSE next_file' = next_file + 1 /\ UNCHANGED pc /\ Running
    /\ UNCHANGED <<args, sys, event, collected_paths, warned>>

\* Lines 178-187: one iteration of the replay loop, and the return after
\* the last one.
ReplayFile ==
    /\ pc = "replay"
    /\ LET p == collected_paths[1][next_file]
           kind == sys.entries[p]
           last == next_file = Len(collected_paths[1])
       IN  IF ~Opens(kind) \/ ~Decode(kind).ok
           THEN Finish("Err", IF ~Opens(kind) THEN "cannot open file"
                              ELSE Decode(kind).err)
                /\ UNCHANGED <<next_file, dispatched, printed>>
           ELSE /\ Dispatch(Decode(kind).val, Some(p))
                /\ IF last THEN Finish("Ok", "") /\ UNCHANGED next_file
                   ELSE next_file' = next_file + 1 /\ UNCHANGED pc /\ Running
    /\ UNCHANGED <<args, sys, event, collected_paths, warned>>

\* Lines 190-218.
BuildStep ==
    /\ pc = "build"
    /\ event' = Some(BuildEvent(args, sys))
    /\ pc' = "timestamp"
    /\ UNCHANGED <<args, sys, collected_paths, next_file, dispatched, printed,
                   warned, result, error>>

\* What a fallible derivation r does to the run: `?` returns on an error,
\* else the event becomes ev and the run moves on to `then`.
Try(r, ev, then) ==
    IF ~r.ok
    THEN Finish("Err", r.err) /\ UNCHANGED event
    ELSE event' = Some(ev) /\ pc' = then /\ Running

\* Lines 220-222.
TimestampStep ==
    /\ pc = "timestamp"
    /\ IF args.timestamp = None
       THEN pc' = "tags" /\ UNCHANGED event /\ Running
       ELSE LET r == GetTimestamp(args.timestamp[1])
            IN  Try(r, [event[1] EXCEPT !.timestamp = r.val], "tags")
    /\ UNCHANGED <<args, sys, collected_paths, next_file, dispatched, printed,
                   warned>>

\* Lines 224-229.
TagsStep ==
    /\ pc = "tags"
    /\ LET r == TagsLoop(args.tags, 1, event[1].tags)
       IN  Try(r, [event[1] EXCEPT !.tags = r.val], "extra")
    /\ UNCHANGED <<args, sys, collected_paths, next_file, dispatched, printed,
                   warned>>

\* Lines 231-243.
ExtraStep ==
    /\ pc = "extra"
    /\ LET r == DeriveExtra(args, sys, event[1].extra)
       IN  Try(r, [event[1] EXCEPT !.extra = r.val], "user")
    /\ UNCHANGED <<args, sys, collected_paths, next_file, dispatched, printed,
                   warned>>

\* Lines 245-271.
UserStep ==
    /\ pc = "user"
    /\ LET r == DeriveUser(args, sys)
       IN  Try(r, [event[1] EXCEPT !.user = r.val], "fingerprint")
    /\ UNCHANGED <<args, sys, collected_paths, next_file, dispatched, printed,
                   warned>>

\* Lines 273-278.
FingerprintStep ==
    /\ pc = "fingerprint"
    /\ event' = Some([event[1] EXCEPT
                        !.fingerprint = DeriveFingerprint(args, @)])
    /\ pc' = "logfile"
    /\ UNCHANGED <<args, sys, collected_paths, next_file, dispatched, printed,
                   warned, result, error>>

\* A wrong call: a failure of attach_logfile is dropped instead of returned.
LogfileStepIgnoresFailure ==
    /\ pc = "logfile"
    /\ IF args.logfile = None
       THEN UNCHANGED event
       ELSE LET r == AttachLogfile(event[1], sys.logContent,
                                   args.with_categories)
            IN  IF r.ok THEN event' = Some(r.val) ELSE UNCHANGED event
    /\ pc' = "send"
    /\ UNCHANGED <<args, sys, collected_paths, next_file, dispatched, printed,
                   warned, result, error>>

\* A wrong call: the breadcrumbs are always parsed with categories.
LogfileStepAlwaysCategories ==
    /\ pc = "logfile"
    /\ IF args.logfile = None
       THEN pc' = "send" /\ UNCHANGED event /\ Running
       ELSE LET r == AttachLogfile(event[1], sys.logContent, TRUE)
            IN  Try(r, r.val, "send")
    /\ UNCHANGED <<args, sys, collected_paths, next_file, dispatched, printed,
                   warned>>

\* Lines 280-282.
LogfileStep ==
    /\ pc = "logfile"
    /\ IF args.logfile = None
       THEN pc' = "send" /\ UNCHANGED event /\ Running
       ELSE LET r == AttachLogfile(event[1], sys.logContent,
                                   args.with_categories)
            IN  Try(r, r.val, "send")
    /\ UNCHANGED <<args, sys, collected_paths, next_file, dispatched, printed,
                   warned>>

\* Lines 284-287: the one dispatch of the assembled event.
SendStep ==
    /\ pc = "send"
    /\ Dispatch(event[1], None)
    /\ Finish("Ok", "")
    /\ UNCHANGED <<args, sys, event, collected_paths, next_file, warned>>

Next ==
    \/ ClapParse
    \/ GetDsn
    \/ GlobExpand
    \/ ReplayFile
    \/ BuildStep
    \/ TimestampStep
    \/ TagsStep
    \/ ExtraStep
    \/ UserStep
    \/ FingerprintStep
    \/ LogfileStep
    \/ SendStep

Spec == Init /\ [][Next]_vars

-----------------------------------------------------------------------------
(* Vocabulary of the properties, stated on the inputs and not through the  *)
(* operators of the model.                                                 *)

Manual == args.path = None
Done == pc = "done"
Succeeded == Done /\ result = "Ok"

Colons(s) == {i \in 1..Len(s) : s[i] = ":"}
HasColon(s) == Colons(s) # {}
FirstColonOf(s) == CHOOSE i \in Colons(s) : \A j \in Colons(s) : i <= j
KeyOf(s) == SubSeq(s, 1, FirstColonOf(s) - 1)
ValueOf(s) == SubSeq(s, FirstColonOf(s) + 1, Len(s))

\* The positions of the arguments of a list that have key k.
WithKey(list, k) == {i \in 1..Len(list) : HasColon(list[i]) /\ KeyOf(list[i]) = k}
Highest(S) == CHOOSE i \in S : \A j \in S : j <= i
Lowest(S) == CHOOSE i \in S : \A j \in S : i <= j

\* Positions of the run after the tags, the extra and the user derivation
\* succeeded.
AfterTags == {"extra", "user", "fingerprint", "logfile", "send"}
AfterExtra == {"user", "fingerprint", "logfile", "send"}
AfterUser == {"fingerprint", "logfile", "send"}

GoodKinds == {"full", "bare"}
\* The record a readable event file holds.
FileEvent(kind) == IF kind = "full" THEN FullFileEvent ELSE DefaultEvent

ValidTimestamps == TimestampPool \ {"notadate"}
BadIpArg(s) ==
    HasColon(s) /\ KeyOf(s) = <<"ip_address">> /\ ValueOf(s) \notin ValidIpTexts

\* Some input of a manual run is one of the fatal errors.
HasFatal ==
    \/ sys.dsn # "ok"
    \/ args.timestamp # None /\ args.timestamp[1] \notin ValidTimestamps
    \/ \E i \in 1..Len(args.tags) : ~HasColon(args.tags[i])
    \/ \E i \in 1..Len(args.extra) : ~HasColon(args.extra[i])
    \/ \E i \in 1..Len(args.user_data) :
          ~HasColon(args.user_data[i]) \/ BadIpArg(args.user_data[i])
    \/ args.logfile # None /\ sys.logContent = None

-----------------------------------------------------------------------------
\* C1: in file-replay mode the matched files p1..pn are handled one at a
\* time in listing order: the i-th dispatch carries the event of pi; if all
\* decode there are exactly n dispatches and success; if pk is the first
\* that fails to open or decode there are exactly k-1 dispatches, none for
\* pk..pn, and the command returns an error.
ReplayInListingOrder ==
    (collected_paths # None /\ collected_paths[1] # <<>>) =>
        LET paths == collected_paths[1]
            n == Len(paths)
            bad == {i \in 1..n : sys.entries[paths[i]] \notin GoodKinds}
            k == IF bad = {} THEN n + 1 ELSE Lowest(bad)
        IN  /\ \A i, j \in 1..n : i < j => paths[i] < paths[j]
            /\ Len(dispatched) <= k - 1
            /\ Len(printed) = Len(dispatched)
            /\ \A i \in 1..Len(dispatched) :
                  /\ dispatched[i] = FileEvent(sys.entries[paths[i]])
                  /\ printed[i].file = Some(paths[i])
            /\ pc = "replay" => Len(dispatched) = next_file - 1
            /\ Done => /\ Len(dispatched) = k - 1
                       /\ result = IF bad = {} THEN "Ok" ELSE "Err"

ReplayAbortedAtSecondFile ==
    /\ Done /\ result = "Err"
    /\ collected_paths # None /\ Len(collected_paths[1]) = 3
    /\ sys.entries[collected_paths[1][1]] \in GoodKinds
    /\ sys.entries[collected_paths[1][2]] = "malformed"
    /\ sys.entries[collected_paths[1][3]] \in GoodKinds
    /\ Len(dispatched) = 1

\* C2: in manual-assembly mode every fatal error is raised before the
\* dispatch: a run that returns an error has dispatched and printed
\* nothing, a run that returns success has made exactly one dispatch, of
\* the fully derived event.
ManualErrorsPrecedeDispatch ==
    Manual =>
        /\ HasFatal => dispatched = <<>> /\ printed = <<>>
        /\ Len(dispatched) <= 1
        /\ dispatched # <<>> => Succeeded
        /\ Done => /\ result = IF HasFatal
                              THEN (IF args.timestamp # None
                                       /\ args.timestamp[1] \notin ValidTimestamps
                                    THEN "UsageError" ELSE "Err")
                              ELSE "Ok"
                   /\ result = "Ok" =>
                         /\ Len(dispatched) = 1 /\ Len(printed) = 1
                         /\ dispatched[1] = event[1]
                         /\ printed[1].file = None

UnreadableLogfileAborts ==
    /\ Manual /\ Done /\ result = "Err"
    /\ args.logfile # None /\ sys.logContent = None
    /\ event # None /\ event[1].user # None
    /\ dispatched = <<>>

\* C3: a tag, extra or user argument with a colon has as key the text
\* before its first colon and as value all the text after it, further
\* colons included; an argument without a colon fails the derivation with
\* a 'missing ... value' error and nothing is dispatched.
FirstColonSplits ==
    Manual =>
        /\ (pc \in AfterTags \/ Succeeded) =>
              \A i \in 1..Len(args.tags) :
                 LET s == args.tags[i]
                 IN  /\ HasColon(s)
                     /\ KeyOf(s) \in DOMAIN event[1].tags
                     /\ i = Highest(WithKey(args.tags, KeyOf(s)))
                           => event[1].tags[KeyOf(s)] = ValueOf(s)
        /\ (pc \in AfterExtra \/ Succeeded) =>
              \A i \in 1..Len(args.extra) :
                 LET s == args.extra[i]
                 IN  /\ HasColon(s)
                     /\ KeyOf(s) \in DOMAIN event[1].extra
                     /\ i = Highest(WithKey(args.extra, KeyOf(s)))
                           => /\ event[1].extra[KeyOf(s)].kind = "string"
                              /\ event[1].extra[KeyOf(s)].val = ValueOf(s)
        /\ (pc \in AfterUser \/ Succeeded) =>
              \A i \in 1..Len(args.user_data) :
                 LET s == args.user_data[i]
                     u == event[1].user[1]
                 IN  /\ HasColon(s)
                     /\ i = Highest(WithKey(args.user_data, KeyOf(s))) =>
                           CASE KeyOf(s) = <<"id">> -> u.id = Some(ValueOf(s))
                             [] KeyOf(s) = <<"email">> ->
                                   u.email = Some(ValueOf(s))
                             [] KeyOf(s) = <<"username">> ->
                                   u.username = Some(ValueOf(s))
                             [] KeyOf(s) = <<"ip_address">> ->
                                   u.ip_address[1].addr = ValueOf(s)
                             [] OTHER ->
                                   /\ KeyOf(s) \in DOMAIN u.other
                                   /\ u.other[KeyOf(s)] = ValueOf(s)
        /\ (\E i \in 1..Len(args.tags) : ~HasColon(args.tags[i])) =>
              /\ dispatched = <<>>
              /\ pc \notin AfterTags
              /\ Done /\ sys.dsn = "ok" /\ result = "Err"
                    => error = "missing tag value"
        /\ (\E i \in 1..Len(args.extra) : ~HasColon(args.extra[i])) =>
              /\ dispatched = <<>>
              /\ pc \notin AfterExtra
              /\ Done /\ event # None /\ result = "Err"
                   /\ (\A j \in 1..Len(args.tags) : HasColon(args.tags[j]))
                    => error = "missing extra value"
        /\ (\E i \in 1..Len(args.user_data) : ~HasColon(args.user_data[i])) =>
              /\ dispatched = <<>>
              /\ pc \notin AfterUser
              /\ Done /\ event # None /\ result = "Err"
                   /\ (\A j \in 1..Len(args.tags) : HasColon(args.tags[j]))
                   /\ (\A j \in 1..Len(args.extra) : HasColon(args.extra[j]))
                   /\ (\A j \in 1..Len(args.user_data) :
                          ~BadIpArg(args.user_data[j]))
                    => error = "missing user value"

UserIdKeepsLaterColons ==
    /\ Manual /\ Succeeded
    /\ args.user_data = << <<"id", ":", "user", ":", "42">> >>
    /\ dispatched[1].user[1].id = Some(<<"user", ":", "42">>)

\* C4: when the path argument is expanded and matches no file, the command
\* warns, dispatches nothing, builds no manual event and returns success.
NoMatchWarnsAndSucceeds ==
    /\ (args.path # None /\ collected_paths = Some(<<>>)) =>
          /\ warned
          /\ dispatched = <<>> /\ printed = <<>>
          /\ event = None
          /\ Done /\ result = "Ok" /\ error = ""
    /\ warned => collected_paths = Some(<<>>)

NoMatchReached ==
    /\ args.path # None /\ collected_paths = Some(<<>>)
    /\ Len(sys.entries) > 0
    /\ Done

\* C5: a dispatched manually assembled event with user pairs carries a user
\* whose ip_address is the parsed value of the last ip_address pair, or the
\* default address without such a pair; without user pairs the user is the
\* OS user name with the default address, and is unset only if that lookup
\* failed.
PresentUserCarriesIp ==
    (Manual /\ dispatched # <<>>) =>
        LET u == dispatched[1].user
            ud == args.user_data
            ips == WithKey(ud, <<"ip_address">>)
        IN  /\ Len(ud) > 0 =>
                 /\ u # None
                 /\ u[1].ip_address =
                       Some(IF ips = {} THEN DefaultIp
                            ELSE [kind |-> "exact",
                                  addr |-> ValueOf(ud[Highest(ips)])])
            /\ (Len(ud) = 0 /\ sys.osUser # None) =>
                 u = Some([id |-> None, email |-> None,
                           ip_address |-> Some(DefaultIp),
                           username |-> sys.osUser, other |-> EmptyMap])
            /\ (Len(ud) = 0 /\ sys.osUser = None) => u = None
            /\ u # None => u[1].ip_address # None

ExplicitUserGetsDefaultIp ==
    /\ Manual /\ dispatched # <<>>
    /\ args.user_data = << <<"id", ":", "user", ":", "42">> >>
    /\ dispatched[1].user[1].ip_address = Some(DefaultIp)

\* C6: after the extra derivation, without an extra argument of key
\* "environ" the entry extra["environ"] is the process environment as an
\* object of strings unless --no-environ is given, and then it is absent;
\* with such an argument it is the string value of the last one, whatever
\* --no-environ says.
EnvironInjectedBeforeExtras ==
    (Manual /\ (pc \in AfterExtra \/ Succeeded)) =>
        LET x == event[1].extra
            own == WithKey(args.extra, <<"environ">>)
        IN  IF own = {}
            THEN IF args.no_environ
                 THEN <<"environ">> \notin DOMAIN x
                 ELSE /\ <<"environ">> \in DOMAIN x
                      /\ x[<<"environ">>].kind = "object"
                      /\ x[<<"environ">>].val = sys.procEnv
            ELSE /\ <<"environ">> \in DOMAIN x
                 /\ x[<<"environ">>].kind = "string"
                 /\ x[<<"environ">>].val = ValueOf(args.extra[Highest(own)])

UserEnvironOverwritesInjected ==
    /\ Manual /\ Succeeded
    /\ ~args.no_environ
    /\ Cardinality(WithKey(args.extra, <<"environ">>)) = 2
    /\ dispatched[1].extra[<<"environ">>].kind = "string"

\* C7: a log file of n lines attaches exactly min(n, 100) breadcrumbs, the
\* last min(n, 100) lines in their order; without categories each message
\* is the raw line and no level is set.
LastHundredLinesKept ==
    (Manual /\ args.logfile # None /\ sys.logContent # None
       /\ (pc = "send" \/ Succeeded)) =>
        LET lines == sys.logContent[1]
            n == Len(lines)
            m == IF n < MaxBreadcrumbs THEN n ELSE MaxBreadcrumbs
            b == event[1].breadcrumbs
        IN  /\ Len(b) = m
            /\ \A j \in 1..m :
                  LET line == lines[n - m + j]
                  IN  IF ~args.with_categories
                      THEN b[j] = [level |-> None, message |-> line]
                      ELSE \/ b[j] = [level |-> None, message |-> line]
                           \/ /\ b[j].level # None
                              /\ b[j].level[1] \in Levels
                              /\ b[j].message = SubSeq(line, 4, Len(line))
            /\ Succeeded => dispatched[1].breadcrumbs = b

OldestLinesDropped ==
    /\ Manual /\ Succeeded
    /\ args.logfile # None /\ sys.logContent # None
    /\ ~args.with_categories
    /\ Len(sys.logContent[1]) > MaxBreadcrumbs
    /\ Len(dispatched[1].breadcrumbs) = MaxBreadcrumbs
    /\ dispatched[1].breadcrumbs[1].message
          = sys.logContent[1][Len(sys.logContent[1]) - MaxBreadcrumbs + 1]

\* C8: any filesystem error or pattern-syntax error raised while expanding
\* the path argument is fatal: nothing is dispatched after it and the
\* command does not return success.
GlobErrorsAreFatal ==
    (args.path # None /\ pc \in {"replay", "done"} /\ sys.dsn = "ok"
       /\ (args.timestamp = None \/ args.timestamp[1] \in ValidTimestamps)
       /\ (\/ ~ValidPattern(args.path[1])
           \/ \E i \in 1..Len(sys.entries) : sys.entries[i] = "globerr")) =>
        /\ dispatched = <<>>
        /\ pc # "replay"
        /\ result # "Ok"

\* C9 as stated: every event handed to the dispatcher has platform and sdk
\* set and one of the five levels.
EveryDispatchedEventHasSdk ==
    \A i \in 1..Len(dispatched) :
        /\ dispatched[i].sdk # None
        /\ dispatched[i].platform # ""
        /\ dispatched[i].level \in Levels

\* C9 amended: every manually assembled event handed to the dispatcher has
\* sdk and platform set and one of the five levels, error for an absent or
\* unparseable level argument; a replayed event is handed over as decoded:
\* its platform is set and its level one of the five, its sdk is that of
\* the file, which may be absent.
ManualEventHasSdkPlatformLevel ==
    \A i \in 1..Len(dispatched) :
        /\ dispatched[i].platform # ""
        /\ dispatched[i].level \in Levels
        /\ Manual =>
              /\ dispatched[i].sdk = Some(SdkInfo)
              /\ dispatched[i].platform =
                    (IF args.platform = None THEN "other" ELSE args.platform[1])
              /\ dispatched[i].level =
                    (IF args.level # None /\ args.level[1] \in Levels
                     THEN args.level[1] ELSE "error")
        /\ ~Manual =>
              dispatched[i].sdk = FileEvent(sys.entries[collected_paths[1][i]]).sdk

UnparseableLevelGivesError ==
    /\ Manual /\ Succeeded
    /\ args.level = Some("ERROR")
    /\ dispatched[1].level = "error"
    /\ dispatched[1].sdk # None

\* What a run with a path argument does when every other argument is
\* ignored: a function of the credential, the pattern and the files alone.
ReplayOutcome ==
    IF sys.dsn # "ok" \/ ~ValidPattern(args.path[1])
    THEN [success |-> FALSE, events |-> {}]
    ELSE LET listed == {i \in 1..Len(sys.entries) : sys.entries[i] # "globerr"}
             bad == {i \in listed : sys.entries[i] \notin GoodKinds}
             sent == IF bad = {} THEN listed
                     ELSE {i \in listed : i < Lowest(bad)}
         IN  [success |-> bad = {},
              events |-> {<<Cardinality({j \in sent : j <= i}),
                            FileEvent(sys.entries[i])>> : i \in sent}]

\* C10: with a path argument all other arguments are ignored: the events
\* dispatched and the success or failure of the run depend on the path,
\* the files and the credential only, malformed values of the other
\* arguments included, and each dispatched event is the record decoded
\* from its file.
PathIgnoresOtherArguments ==
    (args.path # None /\ Done) =>
        /\ (result = "Ok") = ReplayOutcome.success
        /\ {<<i, dispatched[i]>> : i \in 1..Len(dispatched)}
              = ReplayOutcome.events
        /\ event = None

====
